---- MODULE Spec2Model ----
(***************************************************************************)
(* A model of src/generate.py: the multi-country feed-to-creative          *)
(* pipeline (download_feed_xml, create_estonian_contamination_report,      *)
(* process_single_feed with its nested format_price, create_ballzy_ad,     *)
(* the three feed emitters, and process_all_feeds).                        *)
(*                                                                         *)
(* Representation.  A text (Python str) is a sequence of one-character     *)
(* strings.  An XML element is a record [tag, nil, text]: tag is the pair  *)
(* <<prefix, local name>> ("g" for the Google namespace, "" for none),     *)
(* nil = TRUE is element.text None.  Python's None element is NoneNode.    *)
(* An item is the sequence of its child elements in document order.        *)
(* A character outside ASCII is one piece written by name: "(euro)",       *)
(* "(hellip)", "(a-uml)".                                                  *)
(*                                                                         *)
(* Line 224 of the source is indented by two columns inside a function     *)
(* body indented by four, so Python rejects the file as it stands          *)
(* (IndentationError).  The model reads lines 224-238 at the indentation   *)
(* of the function body, which is where the identical block that follows   *)
(* them (lines 240-251) stands.                                            *)
(***************************************************************************)
EXTENDS Integers, Sequences, FiniteSets, TLC

VARIABLES
    country_configs,    \* process_all_feeds' argument: the keys of COUNTRY_CONFIGS, in order
    wide,               \* input space: TRUE = one download succeeds, of one item of AllItems
    pc,                 \* position in process_all_feeds / process_single_feed
    i,                  \* index of the current market in the running for loop
    downloaded_files,   \* process_all_feeds.downloaded_files (its keys)
    fetched,            \* markets whose download has been attempted
    started,            \* markets whose process_single_feed has been entered
    finished,           \* markets whose step-3 loop body has completed
    doc,                \* the items root.iter('item') yields for the current market
    pos,                \* number of items of doc the for loop has consumed
    product_count,      \* process_single_feed.product_count
    products_for_feed,  \* process_single_feed.products_for_feed
    renders,            \* create_ballzy_ad calls of the current market, in order
    emitted,            \* emitter calls of the current market, in order
    ads,                \* generated_ads/ad_<id>.jpg: id -> the call that wrote it last
    files,              \* names of the feed files written so far
    meta_feed,          \* items of the Meta XML file the current market wrote
    tiktok_feed,        \* items of the TikTok XML file the current market wrote
    google_feed,        \* rows of the Google CSV file the current market wrote
    report,             \* LT_Estonian_Contamination_Report.csv
    lt_file,            \* what the report found temp_xml_feeds/lt_feed.xml to be
    error,              \* the exception that left process_all_feeds, "" if none
    fp_in,              \* format_price: the element it is applied to
    fp_out,             \* format_price: its outcome
    template_exists,    \* create_ballzy_ad: assets/ballzy_template.png is there
    ad_call,            \* create_ballzy_ad: the arguments of the call
    base,               \* create_ballzy_ad.base: "template" or "plain", "none" before
    slot,               \* create_ballzy_ad: the slot the for loop comes to next, from 1
    pasted,             \* create_ballzy_ad: per slot gone through, the url pasted or <<>>
    requested,          \* create_ballzy_ad: the urls requests.get was called with
    saved               \* create_ballzy_ad: the output paths written

\* The state of a create_ballzy_ad call taken on its own.
ad_vars == <<template_exists, ad_call, base, slot, pasted, requested, saved>>

vars == <<country_configs, wide, pc, i, downloaded_files, fetched, started, finished,
          doc, pos, product_count, products_for_feed, renders, emitted, ads, files,
          meta_feed, tiktok_feed, google_feed, report, lt_file, error, fp_in, fp_out, ad_vars>>

(***************************************************************************)
(* Bounds of the model.                                                    *)
(***************************************************************************)
\* Longest feed document (items) in the many-item input space.
MaxItems == 3

\* The record cap.  The source sets 50 (src/generate.py:14); the model runs the
\* same loop with a cap small enough for feeds of MaxItems items to reach it.
MAX_PRODUCTS_TO_GENERATE == 2

\* Longest first token of a price text given to format_price on its own.
MaxTokenLen == 3

\* The longest image_urls a create_ballzy_ad call taken on its own is given.
MaxUrls == 3

(***************************************************************************)
(* Python str operations, on sequences of characters.                      *)
(***************************************************************************)
Whitespace == {" "}

RECURSIVE lstrip(_)
lstrip(s) == IF s = <<>> \/ Head(s) \notin Whitespace THEN s ELSE lstrip(Tail(s))

RECURSIVE rstrip(_)
rstrip(s) ==
    IF s = <<>> \/ s[Len(s)] \notin Whitespace THEN s ELSE rstrip(SubSeq(s, 1, Len(s) - 1))

strip(s) == rstrip(lstrip(s))

UpperLower ==
    {<<"A", "a">>, <<"B", "b">>, <<"E", "e">>, <<"F", "f">>, <<"H", "h">>, <<"I", "i">>,
     <<"L", "l">>, <<"N", "n">>, <<"O", "o">>, <<"R", "r">>, <<"S", "s">>, <<"T", "t">>,
     <<"U", "u">>, <<"Y", "y">>}

lowerChar(c) ==
    IF \E p \in UpperLower : p[1] = c THEN (CHOOSE p \in UpperLower : p[1] = c)[2] ELSE c

lower(s) == [k \in 1..Len(s) |-> lowerChar(s[k])]

\* Python's `sub in s`.
contains(sub, s) == \E k \in 1..(Len(s) - Len(sub) + 1) : SubSeq(s, k, k + Len(sub) - 1) = sub

\* Python's s.replace(old, new), old non-empty: leftmost non-overlapping occurrences.
RECURSIVE replace(_, _, _)
replace(s, old, new) ==
    IF Len(s) < Len(old) THEN s
    ELSE IF SubSeq(s, 1, Len(old)) = old
         THEN new \o replace(SubSeq(s, Len(old) + 1, Len(s)), old, new)
         ELSE <<Head(s)>> \o replace(Tail(s), old, new)

\* Length of the leading run of non-whitespace characters.
RECURSIVE tokenLen(_)
tokenLen(s) == IF s = <<>> \/ Head(s) \in Whitespace THEN 0 ELSE 1 + tokenLen(Tail(s))

\* Python's s.split(): the whitespace-separated tokens.
RECURSIVE split(_)
split(s) ==
    LET t == lstrip(s)
        n == tokenLen(t)
    IN  IF t = <<>> THEN <<>> ELSE <<SubSeq(t, 1, n)>> \o split(SubSeq(t, n + 1, Len(t)))

Digits == <<"0", "1", "2", "3", "4", "5", "6", "7", "8", "9">>

IsDigit(c) == \E d \in 1..10 : Digits[d] = c

DigitValue(c) == (CHOOSE d \in 1..10 : Digits[d] = c) - 1

RECURSIVE digitsValue(_)
digitsValue(s) ==
    IF s = <<>> THEN 0 ELSE 10 * digitsValue(SubSeq(s, 1, Len(s) - 1)) + DigitValue(s[Len(s)])

\* str(n) for n >= 0.
RECURSIVE intText(_)
intText(n) == IF n < 10 THEN <<Digits[n + 1]>> ELSE intText(n \div 10) \o <<Digits[(n % 10) + 1]>>

DotCount(s) == Cardinality({k \in 1..Len(s) : s[k] = "."})

DotAt(s) == IF DotCount(s) = 0 THEN Len(s) + 1 ELSE CHOOSE k \in 1..Len(s) : s[k] = "."

IntDigits(s) == SubSeq(s, 1, DotAt(s) - 1)

FracDigits(s) == SubSeq(s, DotAt(s) + 1, Len(s))

\* float(s) returns a finite number: digits with at most one point and at least one
\* digit.  (Signs, exponents and underscores are outside the alphabet of the inputs.)
IsFloatLiteral(s) ==
    /\ \A k \in 1..Len(s) : IsDigit(s[k]) \/ s[k] = "."
    /\ DotCount(s) <= 1
    /\ \E k \in 1..Len(s) : IsDigit(s[k])

\* float(s) returns NaN: int(NaN) then raises ValueError inside the same try.
IsNaNLiteral(s) == lower(s) = <<"n", "a", "n">>

\* float(s) in hundredths, exact for literals of at most two fractional digits.
floatCents(s) ==
    LET f == FracDigits(s)
    IN  100 * digitsValue(IntDigits(s))
          + (IF Len(f) = 0 THEN 0 ELSE IF Len(f) = 1 THEN 10 * digitsValue(f) ELSE digitsValue(f))

\* f"{v:.2f}" of a value given in hundredths.
fixed2(cents) ==
    intText(cents \div 100) \o <<".">> \o <<Digits[((cents % 100) \div 10) + 1]>>
        \o <<Digits[(cents % 10) + 1]>>

(***************************************************************************)
(* XML elements.                                                           *)
(***************************************************************************)
Node(prefix, name, text) == [tag |-> <<prefix, name>>, nil |-> FALSE, text |-> text]

NilNode(prefix, name) == [tag |-> <<prefix, name>>, nil |-> TRUE, text |-> <<>>]

NoneNode == [tag |-> <<"", "">>, nil |-> TRUE, text |-> <<>>]

IsNone(e) == e = NoneNode

\* element.text is falsy (None or "").
NoText(e) == e.nil \/ e.text = <<>>

\* item.find(tag, NAMESPACES): the first child with that tag, else None.
find(item, tag) ==
    IF \E k \in 1..Len(item) : item[k].tag = tag
    THEN item[CHOOSE k \in 1..Len(item) : item[k].tag = tag /\ \A j \in 1..(k - 1) : item[j].tag # tag]
    ELSE NoneNode

\* item.findall(tag, NAMESPACES): the children with that tag, in document order.
findall(item, tag) == SelectSeq(item, LAMBDA e : e.tag = tag)

(***************************************************************************)
(* format_price (nested in process_single_feed).                           *)
(***************************************************************************)
EUR == <<"E", "U", "R">>

EuroSign == <<"(euro)">>

Returned(text) == [exc |-> "", val |-> text]

Raised(name) == [exc |-> name, val |-> <<>>]

format_price(element, currency) ==
    IF IsNone(element) \/ element.nil THEN Returned(<<>>)
    ELSE LET tokens == split(element.text)
         IN  IF tokens = <<>> THEN Raised("IndexError")
             ELSE LET raw_price_str == tokens[1]
                      currency_symbol == replace(currency, EUR, EuroSign)
                      price_value == floatCents(raw_price_str)
                  IN  IF IsFloatLiteral(raw_price_str)
                      THEN IF price_value % 100 = 0
                           THEN Returned(intText(price_value \div 100) \o currency_symbol)
                           ELSE Returned(fixed2(price_value) \o currency_symbol)
                      ELSE \* float() or int(NaN) raised ValueError
                           Returned(replace(raw_price_str, <<" ">> \o EUR, EuroSign))

(***************************************************************************)
(* Configuration (section 1 of the source).  Country codes, URLs and file  *)
(* names are texts; GITHUB_PAGES_BASE_URL and the other fixed fragments    *)
(* are kept as single pieces, since no code looks inside them.             *)
(***************************************************************************)
EE == <<"E", "E">>

LV == <<"L", "V">>

LT == <<"L", "T">>

FI == <<"F", "I">>

\* The keys of COUNTRY_CONFIGS, in dict (insertion) order.
COUNTRY_CODES == <<EE, LV, LT, FI>>

COUNTRY_CONFIGS ==
    [code \in {EE, LV, LT, FI} |->
        [currency |-> EUR, google_feed_required |-> (code # FI)]]

GITHUB_PAGES_BASE_URL == <<"https://tanelneemoja.github.io/testing-somecool-stuff/generated_ads">>

NORMAL_PRICE_COLOR == "#0055FF"

SALE_PRICE_COLOR == "#cc02d2"

\* len(LAYOUT_CONFIG["slots"]); the literal 3 of image_urls[:3] is written where it is used.
SlotCount == 3

G(name) == <<"g", name>>

Bare(name) == <<"", name>>

(***************************************************************************)
(* clean_text.  An HTML entity is one piece of a text; html.unescape maps  *)
(* it to its character.                                                    *)
(***************************************************************************)
Entities == {<<"&hellip;", "(hellip)">>, <<"&lt;", "<">>, <<"&gt;", ">">>, <<"&amp;", "&">>}

unescapeChar(c) ==
    IF \E p \in Entities : p[1] = c THEN (CHOOSE p \in Entities : p[1] = c)[2] ELSE c

unescape(s) == [k \in 1..Len(s) |-> unescapeChar(s[k])]

\* re.sub('<[^>]*>', '', s): each "<" up to the first ">" after it is removed.
RECURSIVE stripTags(_)
stripTags(s) ==
    IF s = <<>> THEN <<>>
    ELSE IF Head(s) = "<" /\ \E k \in 2..Len(s) : s[k] = ">"
         THEN LET close == CHOOSE k \in 2..Len(s) : s[k] = ">" /\ \A j \in 2..(k - 1) : s[j] # ">"
              IN  stripTags(SubSeq(s, close + 1, Len(s)))
         ELSE <<Head(s)>> \o stripTags(Tail(s))

Boilerplate ==
    <<"V", "a", "a", "t", "a", " ", "l", "(a-uml)", "h", "e", "m", "a", "l", "t", " ",
      "b", "a", "l", "l", "z", "y", ".", "e", "u", ".">>

\* clean_text(node.text); the result is never None.
clean_text(e) ==
    IF NoText(e) THEN <<>>
    ELSE strip(replace(stripTags(unescape(e.text)), Boilerplate, <<>>))

(***************************************************************************)
(* create_ballzy_ad and the URL every emitter builds from the id.          *)
(***************************************************************************)
\* f"{GITHUB_PAGES_BASE_URL}/ad_{product_data['id']}.jpg"
new_image_link(product_id) == GITHUB_PAGES_BASE_URL \o <<"/ad_">> \o product_id \o <<".jpg">>

\* The call create_ballzy_ad(image_urls, price_text, product_id, price_color): the
\* slots are paired with image_urls by index, so at most SlotCount urls are used.
create_ballzy_ad(image_urls, price_text, product_id, price_color) ==
    [id |-> product_id,
     image_urls |-> SubSeq(image_urls, 1, IF Len(image_urls) < SlotCount THEN Len(image_urls) ELSE SlotCount),
     price_text |-> price_text,
     price_color |-> price_color]

(***************************************************************************)
(* process_single_feed: the body of the for loop, for one item.            *)
(***************************************************************************)
\* Lines 438-457: the category element is the first of three tags that exists.
category_element(item) ==
    IF ~IsNone(find(item, G("google_product_category")))
    THEN find(item, G("google_product_category"))
    ELSE IF ~IsNone(find(item, G("category")))
         THEN find(item, G("category"))
         ELSE find(item, Bare("google_product_category"))

StreetShoes == <<"s", "t", "r", "e", "e", "t", " ", "s", "h", "o", "e", "s">>

Boots == <<"b", "o", "o", "t", "s">>

Lifestyle == <<"l", "i", "f", "e", "s", "t", "y", "l", "e">>

\* The category filter without its allow-list.
is_correct_category_AnyText(item) ==
    LET e == category_element(item)
    IN  ~IsNone(e) /\ ~e.nil

is_correct_category(item) ==
    LET e == category_element(item)
    IN  /\ ~IsNone(e)
        /\ ~e.nil
        /\ \/ contains(StreetShoes, lower(strip(e.text)))
           \/ contains(Boots, lower(strip(e.text)))

\* Lines 460-466: the un-prefixed custom_label_0.
is_lifestyle(item) ==
    LET e == find(item, Bare("custom_label_0"))
    IN  ~IsNone(e) /\ ~e.nil /\ lower(strip(e.text)) = Lifestyle

\* The price state with the regular price looked at first.
price_state_PriceFirst(item) ==
    IF ~IsNone(find(item, G("price"))) THEN "normal"
    ELSE IF ~IsNone(find(item, G("sale_price"))) THEN "sale"
    ELSE "none"

\* Lines 475-484.
price_state(item) ==
    IF ~IsNone(find(item, G("sale_price"))) THEN "sale"
    ELSE IF ~IsNone(find(item, G("price"))) THEN "normal"
    ELSE "none"

display_price_element(item) ==
    IF price_state(item) = "sale" THEN find(item, G("sale_price")) ELSE find(item, G("price"))

final_price_color(item) ==
    IF price_state(item) = "sale" THEN SALE_PRICE_COLOR ELSE NORMAL_PRICE_COLOR

\* Lines 499-506: the primary link, then the first two additional elements that have text.
image_urls(item) ==
    LET main_image == find(item, G("image_link"))
        additional_images == findall(item, G("additional_image_link"))
        firstTwo == SubSeq(additional_images, 1,
                           IF Len(additional_images) < 2 THEN Len(additional_images) ELSE 2)
        withText == SelectSeq(firstTwo, LAMBDA e : ~NoText(e))
    IN  (IF ~IsNone(main_image) /\ ~NoText(main_image) THEN <<strip(main_image.text)>> ELSE <<>>)
          \o [k \in 1..Len(withText) |-> strip(withText[k].text)]

\* Line 529: image_urls[:3].
image_urls_for_ad(item) ==
    SubSeq(image_urls(item), 1, IF Len(image_urls(item)) < 3 THEN Len(image_urls(item)) ELSE 3)

\* Lines 511-517: title, description and link are cleaned in place, in every namespace.
cleaned_nodes(item) ==
    [k \in 1..Len(item) |->
        IF item[k].tag[2] \in {"description", "title", "link"}
        THEN [tag |-> item[k].tag, nil |-> FALSE, text |-> clean_text(item[k])]
        ELSE item[k]]

\* The dict item_elements: local tag name -> the last child with that name.
item_elements(nodes) ==
    [name \in {nodes[k].tag[2] : k \in 1..Len(nodes)} |->
        nodes[CHOOSE k \in 1..Len(nodes) :
                 nodes[k].tag[2] = name /\ \A j \in (k + 1)..Len(nodes) : nodes[j].tag[2] # name]]

\* dict.get
get(d, name) == IF name \in DOMAIN d THEN d[name] ELSE NoneNode

\* What one pass of the loop body does with `item`:
\*   [kind |-> "skip"]                      a `continue`
\*   [kind |-> "raise", exc]                an exception nothing catches
\*   [kind |-> "accept", product, ad]       the appended record and the creative call
\* The record's 'item_elements' is the dict of the very elements its 'nodes' lists, so
\* the model keeps nodes and computes item_elements(nodes) where the dict is read.
process_item(item, config) ==
    LET product_id_element == find(item, G("id"))
        shown == format_price(display_price_element(item), config.currency)
        fprice == format_price(find(item, G("price")), config.currency)
        fsale == format_price(find(item, G("sale_price")), config.currency)
        nodes == cleaned_nodes(item)
        product_id == strip(product_id_element.text)
    IN  IF IsNone(product_id_element) \/ product_id_element.nil THEN [kind |-> "skip"]
        ELSE IF ~is_correct_category(item) \/ ~is_lifestyle(item) THEN [kind |-> "skip"]
        ELSE IF price_state(item) = "none" THEN [kind |-> "skip"]
        ELSE IF shown.exc # "" THEN [kind |-> "raise", exc |-> shown.exc]
        ELSE IF image_urls(item) = <<>> THEN [kind |-> "skip"]
        ELSE IF fprice.exc # "" THEN [kind |-> "raise", exc |-> fprice.exc]
        ELSE IF fsale.exc # "" THEN [kind |-> "raise", exc |-> fsale.exc]
        ELSE [kind |-> "accept",
              product |-> [id |-> product_id,
                           price_state |-> price_state(item),
                           formatted_price |-> fprice.val,
                           formatted_sale_price |-> fsale.val,
                           nodes |-> nodes],
              ad |-> create_ballzy_ad(image_urls_for_ad(item), shown.val, product_id,
                                      final_price_color(item))]

(***************************************************************************)
(* The feed emitters: the items (rows) each writes for processed_products. *)
(***************************************************************************)
META_FEED_FILENAME(country_code) == <<"ballzy_">> \o lower(country_code) \o <<"_ad_feed.xml">>

TIKTOK_FEED_FILENAME(country_code) ==
    <<"ballzy_tiktok_">> \o lower(country_code) \o <<"_ad_feed.xml">>

GOOGLE_FEED_FILENAME(country_code) ==
    <<"ballzy_">> \o lower(country_code) \o <<"_google_feed.csv">>

\* download_feed_xml's file_path.
TEMP_FEED_FILENAME(country_code) == <<"temp_xml_feeds/">> \o lower(country_code) \o <<"_feed.xml">>

\* The source's g:image_link kept beside the new one.
meta_item_KeepsSourceImage(product_data) ==
    product_data.nodes \o <<Node("g", "image_link", new_image_link(product_data.id))>>

\* Lines 271-282: every node but g:image_link, then the new g:image_link.
meta_item(product_data) ==
    SelectSeq(product_data.nodes, LAMBDA node : node.tag # G("image_link"))
        \o <<Node("g", "image_link", new_image_link(product_data.id))>>

generate_meta_feed(processed_products) ==
    [k \in 1..Len(processed_products) |-> meta_item(processed_products[k])]

tiktok_required_tags ==
    <<"id", "title", "description", "availability", "condition", "price", "link", "brand",
      "item_group_id", "google_product_category", "product_type", "sale_price",
      "sale_price_effective_date", "color", "gender", "size">>

tiktok_custom_labels ==
    <<"custom_label_0", "custom_label_1", "custom_label_2", "custom_label_3", "custom_label_4">>

\* Line 324: the tags written in the g namespace.
tiktok_prefix(tag_name) ==
    IF \/ tag_name \in {"id", "title", "description", "price", "sale_price", "link",
                        "image_link", "brand"}
       \/ tag_name \in {tiktok_custom_labels[k] : k \in 1..Len(tiktok_custom_labels)}
    THEN "g" ELSE ""

\* Lines 314-339.
tiktok_item(product_data) ==
    LET tags == tiktok_required_tags \o tiktok_custom_labels
        kept == SelectSeq(tags, LAMBDA tag_name :
                    LET node == get(item_elements(product_data.nodes), tag_name)
                    IN  ~IsNone(node) /\ ~NoText(node) /\ strip(node.text) # <<>>)
        additional_images == get(item_elements(product_data.nodes), "additional_image_link")
    IN  [k \in 1..Len(kept) |->
            Node(tiktok_prefix(kept[k]), kept[k], get(item_elements(product_data.nodes), kept[k]).text)]
          \o <<Node("g", "image_link", new_image_link(product_data.id))>>
          \o (IF ~IsNone(additional_images) /\ ~NoText(additional_images)
              THEN <<Node("g", "additional_image_link", additional_images.text)>>
              ELSE <<>>)

generate_tiktok_feed(processed_products) ==
    [k \in 1..Len(processed_products) |-> tiktok_item(processed_products[k])]

\* Python's sep.join(list).
RECURSIVE join(_, _)
join(list, sep) ==
    IF list = <<>> THEN <<>>
    ELSE IF Len(list) = 1 THEN list[1]
    ELSE list[1] \o sep \o join(Tail(list), sep)

\* Lines 367-370.
get_value(product_data, tag_name) ==
    LET node == get(item_elements(product_data.nodes), tag_name)
    IN  IF ~IsNone(node) /\ ~node.nil THEN strip(node.text) ELSE <<>>

\* Lines 372-401: the columns of one row that are not left empty.
google_row(product_data) ==
    LET keywords_list ==
            <<get_value(product_data, "brand"), get_value(product_data, "color")>>
              \o [k \in 1..5 |-> get_value(product_data, tiktok_custom_labels[k])]
    IN  [ID |-> get_value(product_data, "id"),
         Item_title |-> get_value(product_data, "title"),
         Final_URL |-> get_value(product_data, "link"),
         Image_URL |-> new_image_link(product_data.id),
         Item_Description |-> get_value(product_data, "description"),
         Item_category |->
            IF get_value(product_data, "google_product_category") # <<>>
            THEN get_value(product_data, "google_product_category")
            ELSE get_value(product_data, "category"),
         Price |-> get_value(product_data, "price"),
         Sale_price |-> get_value(product_data, "sale_price"),
         Contextual_keywords |-> join(SelectSeq(keywords_list, LAMBDA t : t # <<>>), <<",">>),
         Formatted_price |-> product_data.formatted_price,
         Formatted_sale_price |-> product_data.formatted_sale_price]

generate_google_feed(processed_products) ==
    [k \in 1..Len(processed_products) |-> google_row(processed_products[k])]

(***************************************************************************)
(* create_estonian_contamination_report.                                   *)
(***************************************************************************)
REPORT_CSV_FILE == <<"LT_Estonian_Contamination_Report.csv">>

ESTONIAN_MARKERS ==
    {<<"(o-uml)">>, <<"(a-uml)">>, <<"(u-uml)">>, <<"(o-tilde)">>,
     <<"e", "e", "s", "t", "i">>, <<"s", "a", "a", "d", "a", "v", "a", "l">>,
     <<"v", "a", "a", "t", "a">>, <<"p", "o", "o", "d">>, <<"n", "i", "n", "g">>,
     <<"k", "o", "h", "e">>}

\* element.text.strip() if the element exists and has text, else ''.
stripped_text(e) == IF ~IsNone(e) /\ ~NoText(e) THEN strip(e.text) ELSE <<>>

\* Lines 199-221.  item.find('g:title') and item.find('g:link') are given no namespace
\* map, so they look for a child whose tag is the literal 'g:title' ('g:link').
report_row(item) ==
    LET id_node == find(item, G("id"))
        title_text == stripped_text(find(item, Bare("g:title")))
        description_text == stripped_text(find(item, G("description")))
        link_text == stripped_text(find(item, Bare("g:link")))
    IN  [ID |-> IF ~IsNone(id_node) /\ ~NoText(id_node) THEN id_node.text ELSE <<"N/A">>,
         Title |-> title_text,
         Description |-> replace(description_text, <<"\n">>, <<" ">>),
         Link |-> link_text]

is_contaminated(item) ==
    LET r == report_row(item)
        full_text == lower(r.Title \o <<" ">> \o stripped_text(find(item, G("description"))))
    IN  \E marker \in ESTONIAN_MARKERS : contains(marker, full_text)

contaminated_products(product_elements) ==
    LET hit == SelectSeq(product_elements, is_contaminated)
    IN  [k \in 1..Len(hit) |-> report_row(hit[k])]

NoReport == [exists |-> FALSE, header |-> <<>>, rows |-> <<>>]

\* Lines 224-238: the file is opened for writing, the header and every row are written.
first_report(rows) ==
    [exists |-> TRUE, header |-> <<"ID", "Title", "Description", "Link">>, rows |-> rows]

\* Lines 240-251: the file is opened for writing again, which empties it, and gets the
\* three-column header; DictWriter.writerows then raises ValueError on the first row,
\* whose keys Description and Link are not among the field names.
second_report(rows) ==
    [file |-> [exists |-> TRUE, header |-> <<"ID", "Title", "Description_Snippet">>, rows |-> <<>>],
     exc |-> IF rows = <<>> THEN "" ELSE "ValueError"]

\* The report file and the exception after create_estonian_contamination_report, the
\* feed file being `parse`: "missing", "bad" (ParseError) or "ok" with items product_elements.
create_estonian_contamination_report(parse, product_elements) ==
    IF parse # "ok" THEN [file |-> NoReport, exc |-> ""]
    ELSE second_report(first_report(contaminated_products(product_elements)).rows)

(***************************************************************************)
(* The input space: feed items.                                            *)
(***************************************************************************)
IdChoices == {<<>>, <<Node("g", "id", <<" ", "B", " ">>)>>}

TextChoices ==
    {<<>>,
     <<Node("g", "title", <<" ", "<", "b", ">", "K", "<", "/", "b", ">", "&hellip;">>),
       Node("g", "description", <<"R", "u", "n", "n", "i", "n", "g">>)>>}

CategoryChoices ==
    {<<>>,
     <<Node("g", "google_product_category", <<"S", "t", "r", "e", "e", "t", " ", "S", "h", "o", "e", "s">>)>>,
     <<Node("g", "category", <<" ", "B", "O", "O", "T", "S">>)>>,
     <<Node("", "google_product_category", <<"S", "a", "n", "d", "a", "l", "s">>)>>,
     <<NilNode("g", "google_product_category"), Node("g", "category", <<"B", "o", "o", "t", "s">>)>>}

LabelChoices ==
    {<<Node("", "custom_label_0", <<" ", "L", "i", "f", "e", "s", "t", "y", "l", "e">>)>>,
     <<Node("", "custom_label_0", <<"s", "p", "o", "r", "t">>)>>,
     <<Node("g", "custom_label_0", Lifestyle)>>}

ImageChoices == {<<>>, <<Node("g", "image_link", <<"u", "0", " ">>)>>}

AdditionalChoices ==
    {<<>>,
     <<Node("g", "additional_image_link", <<"u", "1">>),
       Node("g", "additional_image_link", <<"u", "2">>),
       Node("g", "additional_image_link", <<"u", "3">>)>>,
     <<NilNode("g", "additional_image_link"),
       Node("g", "additional_image_link", <<"u", "2">>),
       Node("g", "additional_image_link", <<"u", "3">>)>>}

PriceChoices ==
    {<<>>,
     <<Node("g", "price", <<"1", "2", ".", "5", "0", " ", "E", "U", "R">>)>>,
     <<Node("g", "price", <<" ">>)>>}

SalePriceChoices ==
    {<<>>,
     <<Node("g", "sale_price", <<"1", "2", ".", "0", "0", " ", "E", "U", "R">>)>>,
     <<NilNode("g", "sale_price")>>}

\* Every combination of the choices: the one-item input space.
AllItems ==
    {a \o b \o c \o d \o e \o f \o g \o h :
        a \in IdChoices, b \in TextChoices, c \in CategoryChoices, d \in LabelChoices,
        e \in ImageChoices, f \in AdditionalChoices, g \in PriceChoices, h \in SalePriceChoices}

ItemA1 ==
    <<Node("g", "id", <<"A">>),
      Node("g", "title", <<" ", "<", "b", ">", "K", "<", "/", "b", ">", "&hellip;">>),
      Node("g", "description", <<"R", "u", "n", "n", "i", "n", "g">>),
      Node("g", "google_product_category", <<"S", "t", "r", "e", "e", "t", " ", "S", "h", "o", "e", "s">>),
      Node("", "custom_label_0", <<" ", "L", "i", "f", "e", "s", "t", "y", "l", "e">>),
      Node("g", "image_link", <<"u", "0", " ">>),
      Node("g", "additional_image_link", <<"u", "1">>),
      Node("g", "additional_image_link", <<"u", "2">>),
      Node("g", "additional_image_link", <<"u", "3">>),
      Node("g", "price", <<"1", "2", ".", "5", "0", " ", "E", "U", "R">>),
      Node("g", "sale_price", <<"1", "2", ".", "0", "0", " ", "E", "U", "R">>)>>

ItemA2 ==
    <<Node("g", "id", <<"A">>),
      Node("g", "google_product_category", <<"S", "t", "r", "e", "e", "t", " ", "S", "h", "o", "e", "s">>),
      Node("", "custom_label_0", <<" ", "L", "i", "f", "e", "s", "t", "y", "l", "e">>),
      NilNode("g", "additional_image_link"),
      Node("g", "additional_image_link", <<"u", "2">>),
      Node("g", "additional_image_link", <<"u", "3">>),
      Node("g", "price", <<"1", "2", ".", "5", "0", " ", "E", "U", "R">>)>>

ItemNoId ==
    <<Node("g", "title", <<"K">>),
      Node("g", "description", <<"B", "a", "t", "a", "i">>),
      Node("g", "google_product_category", <<"S", "t", "r", "e", "e", "t", " ", "S", "h", "o", "e", "s">>),
      Node("", "custom_label_0", <<" ", "L", "i", "f", "e", "s", "t", "y", "l", "e">>),
      Node("g", "image_link", <<"u", "0", " ">>),
      Node("g", "price", <<"1", "2", ".", "5", "0", " ", "E", "U", "R">>)>>

\* The items of the many-item input space: two the filters accept, which bear the same
\* id, and one they reject.
CoreItems == {ItemA1, ItemA2, ItemNoId}

\* The feed documents of an input space, as the sequence of their items.  The items
\* stand directly under rss/channel, so './channel/item' and iter('item') agree.
WideDocs == {<<it>> : it \in AllItems}

CoreDocs == UNION {[1..n -> CoreItems] : n \in 0..MaxItems}

Docs(w) == IF w THEN WideDocs ELSE CoreDocs

\* The documents the contamination report scans without raising.
CleanWideDocs == {d \in WideDocs : contaminated_products(d) = <<>>}

CleanCoreDocs == {d \in CoreDocs : contaminated_products(d) = <<>>}

CleanDocs(w) == IF w THEN CleanWideDocs ELSE CleanCoreDocs

(***************************************************************************)
(* The input space of format_price taken on its own.                       *)
(***************************************************************************)
PriceAlphabet == {"0", "1", "2", "5", ".", "N", "/", "A"}

\* First tokens of a price text.  float() is modelled in hundredths, so the numeric
\* tokens are those of at most two fractional digits.
PriceTokens ==
    {t \in UNION {[1..n -> PriceAlphabet] : n \in 1..MaxTokenLen} :
        IsFloatLiteral(t) => Len(FracDigits(t)) <= 2}

PriceTexts ==
    {pre \o t \o suf : pre \in {<<>>, <<" ">>}, t \in PriceTokens, suf \in {<<>>, <<" ">> \o EUR}}
      \cup {<<" ">>,
            <<"1", "2", ".", "0", "0", " ", "E", "U", "R">>,
            <<"1", "2", ".", "5", "0", " ", "E", "U", "R">>,
            <<"N", "/", "A", " ", "E", "U", "R">>}

PriceElements ==
    {NoneNode, NilNode("g", "price")} \cup {Node("g", "price", t) : t \in PriceTexts}

Pending == [exc |-> "pending", val |-> <<>>]

(***************************************************************************)
(* The state machine.                                                      *)
(***************************************************************************)
InitLocals ==
    /\ downloaded_files = {}
    /\ fetched = {}
    /\ started = {}
    /\ finished = {}
    /\ doc = <<>>
    /\ pos = 0
    /\ product_count = 0
    /\ products_for_feed = <<>>
    /\ renders = <<>>
    /\ emitted = <<>>
    /\ ads = {}
    /\ files = {}
    /\ meta_feed = <<>>
    /\ tiktok_feed = <<>>
    /\ google_feed = <<>>
    /\ report = NoReport
    /\ lt_file = "unread"
    /\ error = ""

\* No create_ballzy_ad call is being followed.
NoAdCall == [image_urls |-> <<>>, price_text |-> <<>>, product_id |-> <<>>, price_color |-> ""]

AdIdle ==
    /\ template_exists = TRUE
    /\ ad_call = NoAdCall
    /\ base = "none"
    /\ slot = 1
    /\ pasted = <<>>
    /\ requested = <<>>
    /\ saved = <<>>

\* process_all_feeds(country_configs) is about to start.
Init ==
    /\ wide \in BOOLEAN
    /\ country_configs = COUNTRY_CODES
    /\ pc = "download"
    /\ i = 1
    /\ InitLocals
    /\ fp_in = NoneNode
    /\ fp_out = Pending
    /\ AdIdle

\* format_price is about to be applied to one element.
InitPrice ==
    /\ wide = TRUE
    /\ country_configs = COUNTRY_CODES
    /\ pc = "format_price"
    /\ i \in 1..Len(country_configs)
    /\ InitLocals
    /\ fp_in \in PriceElements
    /\ fp_out = Pending
    /\ AdIdle

country_code == country_configs[i]

config == COUNTRY_CONFIGS[country_code]

\* The locals of process_single_feed, and the feed documents it wrote, as they are
\* outside a call.
NoCall ==
    /\ doc' = <<>>
    /\ pos' = 0
    /\ product_count' = 0
    /\ products_for_feed' = <<>>
    /\ renders' = <<>>
    /\ emitted' = <<>>
    /\ meta_feed' = <<>>
    /\ tiktok_feed' = <<>>
    /\ google_feed' = <<>>

\* The body of a `for code, config in country_configs.items()` loop of step 3 ends.
NextMarket ==
    /\ finished' = finished \cup {country_code}
    /\ IF i < Len(country_configs)
       THEN i' = i + 1 /\ pc' = "process"
       ELSE i' = i /\ pc' = "done"

\* A market fetched only when its turn to be processed has come.
DownloadFeed_ThenProcess ==
    /\ pc = "download"
    /\ \E ok \in BOOLEAN :
          /\ ok /\ wide => downloaded_files = {}
          /\ downloaded_files' = IF ok THEN downloaded_files \cup {country_code} ELSE downloaded_files
          /\ files' = IF ok THEN files \cup {TEMP_FEED_FILENAME(country_code)} ELSE files
    /\ fetched' = fetched \cup {country_code}
    /\ i' = i
    /\ pc' = "process"
    /\ UNCHANGED <<country_configs, wide, started, finished, doc, pos, product_count,
                   products_for_feed, renders, emitted, ads, meta_feed, tiktok_feed,
                   google_feed, report, lt_file, error, fp_in, fp_out, ad_vars>>

\* Step 1, one market: download_feed_xml returns a path or None.  After the last
\* market comes step 2's test `'LT' in downloaded_files`.
DownloadFeed ==
    /\ pc = "download"
    /\ \E ok \in BOOLEAN :
          /\ ok /\ wide => downloaded_files = {}
          /\ downloaded_files' = IF ok THEN downloaded_files \cup {country_code} ELSE downloaded_files
          /\ files' = IF ok THEN files \cup {TEMP_FEED_FILENAME(country_code)} ELSE files
    /\ fetched' = fetched \cup {country_code}
    /\ IF i < Len(country_configs)
       THEN i' = i + 1 /\ pc' = "download"
       ELSE i' = 1 /\ pc' = IF LT \in downloaded_files' THEN "report" ELSE "process"
    /\ UNCHANGED <<country_configs, wide, started, finished, doc, pos, product_count,
                   products_for_feed, renders, emitted, ads, meta_feed, tiktok_feed,
                   google_feed, report, lt_file, error, fp_in, fp_out, ad_vars>>

\* Step 2: create_estonian_contamination_report(downloaded_files['LT']).
ContaminationReport ==
    /\ pc = "report"
    /\ \E parse \in {"missing", "bad", "ok"}, d \in Docs(wide) :
          LET r == create_estonian_contamination_report(parse, d)
          IN  /\ report' = IF parse = "ok" THEN r.file ELSE report
              /\ files' = IF parse = "ok" THEN files \cup {REPORT_CSV_FILE} ELSE files
              /\ lt_file' = parse
              /\ error' = r.exc
              /\ pc' = IF r.exc = "" THEN "process" ELSE "crashed"
    /\ UNCHANGED <<country_configs, wide, i, downloaded_files, fetched, started, finished,
                   doc, pos, product_count, products_for_feed, renders, emitted, ads,
                   meta_feed, tiktok_feed, google_feed, fp_in, fp_out, ad_vars>>

\* Step 3, a market without a downloaded file.
SkipMarket ==
    /\ pc = "process"
    /\ country_code \notin downloaded_files
    /\ NextMarket
    /\ UNCHANGED <<country_configs, wide, downloaded_files, fetched, started, doc, pos,
                   product_count, products_for_feed, renders, emitted, ads, files,
                   meta_feed, tiktok_feed, google_feed, report, lt_file, error, fp_in, fp_out, ad_vars>>

\* What ET.parse can find the market's file to be, given what the report found.
ParseOutcomes ==
    IF country_code = LT /\ lt_file = "missing" THEN {"missing"}
    ELSE IF country_code = LT /\ lt_file = "bad" THEN {"missing", "bad"}
    ELSE {"missing", "bad", "ok"}

\* The LT document is the one the report has scanned without raising.
FeedDocs == IF country_code = LT THEN CleanDocs(wide) ELSE Docs(wide)

EnterSingleFeed ==
    /\ started' = started \cup {country_code}
    /\ UNCHANGED <<product_count, products_for_feed, renders, emitted, meta_feed,
                   tiktok_feed, google_feed>>

\* process_single_feed, lines 411-427: the feed parses.
ParseFeed ==
    /\ pc = "process"
    /\ country_code \in downloaded_files
    /\ "ok" \in ParseOutcomes
    /\ EnterSingleFeed
    /\ doc' \in FeedDocs
    /\ UNCHANGED pos
    /\ pc' = "items"
    /\ UNCHANGED <<country_configs, wide, i, downloaded_files, fetched, finished, ads, files,
                   report, lt_file, error, fp_in, fp_out, ad_vars>>

\* process_single_feed, lines 420-425: ParseError or FileNotFoundError, and return.
ParseFails ==
    /\ pc = "process"
    /\ country_code \in downloaded_files
    /\ \E parse \in ParseOutcomes : parse # "ok"
    /\ EnterSingleFeed
    /\ pc' = "return"
    /\ UNCHANGED <<country_configs, wide, i, downloaded_files, fetched, finished, doc, pos,
                   ads, files, report, lt_file, error, fp_in, fp_out, ad_vars>>

\* The loop's exit test with the cap applied to the items read, not to the records kept.
LoopOver_CapOnItemsRead == pos = Len(doc) \/ pos >= MAX_PRODUCTS_TO_GENERATE

LoopOver == pos = Len(doc) \/ product_count >= MAX_PRODUCTS_TO_GENERATE

\* The creative saved only if no file of that id is there yet.
save_ad_KeepsFirst(creatives, ad) ==
    IF \E a \in creatives : a.id = ad.id THEN creatives ELSE creatives \cup {ad}

\* Lines 157-160: base.save(generated_ads/ad_<product_id>.jpg) replaces the file of
\* that name, whichever market wrote it.
save_ad(creatives, ad) == {a \in creatives : a.id # ad.id} \cup {ad}

\* One pass of `for item in root.iter('item')`, lines 429-531.
ProcessItem ==
    /\ pc = "items"
    /\ ~LoopOver
    /\ \E r \in {process_item(doc[pos + 1], config)} :
           /\ pos' = pos + 1
           /\ pc' = IF r.kind = "raise" THEN "crashed" ELSE pc
           /\ error' = IF r.kind = "raise" THEN r.exc ELSE error
           /\ IF r.kind = "accept"
              THEN /\ products_for_feed' = Append(products_for_feed, r.product)
                   /\ renders' = Append(renders, r.ad)
                   /\ ads' = save_ad(ads, r.ad)
                   /\ product_count' = product_count + 1
              ELSE UNCHANGED <<products_for_feed, renders, ads, product_count>>
    /\ UNCHANGED <<country_configs, wide, i, downloaded_files, fetched, started, finished,
                   doc, emitted, files, meta_feed, tiktok_feed, google_feed, report,
                   lt_file, fp_in, fp_out, ad_vars>>

\* The meta feed written although nothing was accepted.
NoProducts_WritesMetaFeed ==
    /\ pc = "items"
    /\ LoopOver
    /\ products_for_feed = <<>>
    /\ files' = files \cup {META_FEED_FILENAME(country_code)}
    /\ pc' = "return"
    /\ UNCHANGED <<country_configs, wide, i, downloaded_files, fetched, started, finished,
                   doc, pos, product_count, products_for_feed, renders, emitted, ads,
                   meta_feed, tiktok_feed, google_feed, report, lt_file, error, fp_in, fp_out, ad_vars>>

\* Lines 534, 545-546: the loop is over and nothing was accepted.
NoProducts ==
    /\ pc = "items"
    /\ LoopOver
    /\ products_for_feed = <<>>
    /\ pc' = "return"
    /\ UNCHANGED <<country_configs, wide, i, downloaded_files, fetched, started, finished,
                   doc, pos, product_count, products_for_feed, renders, emitted, ads, files,
                   meta_feed, tiktok_feed, google_feed, report, lt_file, error, fp_in, fp_out, ad_vars>>

\* The Google feed written whatever google_feed_required says.
GenerateMetaFeed_ThenAlwaysGoogle ==
    /\ pc = "items"
    /\ LoopOver
    /\ products_for_feed # <<>>
    /\ meta_feed' = generate_meta_feed(products_for_feed)
    /\ files' = files \cup {META_FEED_FILENAME(country_code)}
    /\ emitted' = Append(emitted, "meta")
    /\ pc' = "google"
    /\ UNCHANGED <<country_configs, wide, i, downloaded_files, fetched, started, finished,
                   doc, pos, product_count, products_for_feed, renders, ads, tiktok_feed,
                   google_feed, report, lt_file, error, fp_in, fp_out, ad_vars>>

\* Lines 534-536: generate_meta_feed(products_for_feed, country_code).
GenerateMetaFeed ==
    /\ pc = "items"
    /\ LoopOver
    /\ products_for_feed # <<>>
    /\ meta_feed' = generate_meta_feed(products_for_feed)
    /\ files' = files \cup {META_FEED_FILENAME(country_code)}
    /\ emitted' = Append(emitted, "meta")
    /\ pc' = IF config.google_feed_required THEN "google" ELSE "tiktok"
    /\ UNCHANGED <<country_configs, wide, i, downloaded_files, fetched, started, finished,
                   doc, pos, product_count, products_for_feed, renders, ads, tiktok_feed,
                   google_feed, report, lt_file, error, fp_in, fp_out, ad_vars>>

\* Lines 539-540: generate_google_feed(products_for_feed, country_code).
GenerateGoogleFeed ==
    /\ pc = "google"
    /\ google_feed' = generate_google_feed(products_for_feed)
    /\ files' = files \cup {GOOGLE_FEED_FILENAME(country_code)}
    /\ emitted' = Append(emitted, "google")
    /\ pc' = "tiktok"
    /\ UNCHANGED <<country_configs, wide, i, downloaded_files, fetched, started, finished,
                   doc, pos, product_count, products_for_feed, renders, ads, meta_feed,
                   tiktok_feed, report, lt_file, error, fp_in, fp_out, ad_vars>>

\* Line 543: generate_tiktok_feed(products_for_feed, country_code).
GenerateTikTokFeed ==
    /\ pc = "tiktok"
    /\ tiktok_feed' = generate_tiktok_feed(products_for_feed)
    /\ files' = files \cup {TIKTOK_FEED_FILENAME(country_code)}
    /\ emitted' = Append(emitted, "tiktok")
    /\ pc' = "return"
    /\ UNCHANGED <<country_configs, wide, i, downloaded_files, fetched, started, finished,
                   doc, pos, product_count, products_for_feed, renders, ads, meta_feed,
                   google_feed, report, lt_file, error, fp_in, fp_out, ad_vars>>

\* process_single_feed returns to process_all_feeds, line 570.
ReturnFromFeed ==
    /\ pc = "return"
    /\ NoCall
    /\ NextMarket
    /\ UNCHANGED <<country_configs, wide, downloaded_files, fetched, started, ads, files,
                   report, lt_file, error, fp_in, fp_out, ad_vars>>

Next ==
    \/ DownloadFeed
    \/ ContaminationReport
    \/ SkipMarket
    \/ ParseFeed
    \/ ParseFails
    \/ ProcessItem
    \/ NoProducts
    \/ GenerateMetaFeed
    \/ GenerateGoogleFeed
    \/ GenerateTikTokFeed
    \/ ReturnFromFeed

Spec == Init /\ [][Next]_vars

\* format_price(fp_in) in a market's configuration.
FormatPrice ==
    /\ pc = "format_price"
    /\ fp_out' = format_price(fp_in, config.currency)
    /\ pc' = "formatted"
    /\ UNCHANGED <<country_configs, wide, i, downloaded_files, fetched, started, finished,
                   doc, pos, product_count, products_for_feed, renders, emitted, ads, files,
                   meta_feed, tiktok_feed, google_feed, report, lt_file, error, fp_in, ad_vars>>

NextPrice == FormatPrice

SpecPrice == InitPrice /\ [][NextPrice]_vars

(***************************************************************************)
(* create_ballzy_ad taken on its own, slot by slot.                        *)
(***************************************************************************)
AdUrls == {<<"u", "0">>, <<"u", "1">>}

AdCalls ==
    [image_urls : UNION {[1..n -> AdUrls] : n \in 0..MaxUrls},
     price_text : {<<"1", "2">> \o EuroSign},
     product_id : {<<"A">>},
     price_color : {NORMAL_PRICE_COLOR, SALE_PRICE_COLOR}]

\* What a slot no image was pasted on shows: the template, or the plain canvas.
Background == <<>>

\* Lines 158-159.
output_path(product_id) == <<"generated_ads/ad_">> \o product_id \o <<".jpg">>

\* create_ballzy_ad(image_urls, price_text, product_id, price_color) is about to start.
InitAd ==
    /\ wide = TRUE
    /\ country_configs = COUNTRY_CODES
    /\ pc = "ad_open"
    /\ i = 1
    /\ InitLocals
    /\ fp_in = NoneNode
    /\ fp_out = Pending
    /\ template_exists \in BOOLEAN
    /\ ad_call \in AdCalls
    /\ base = "none"
    /\ slot = 1
    /\ pasted = <<>>
    /\ requested = <<>>
    /\ saved = <<>>

\* Lines 113-116: the template, or on FileNotFoundError a plain white canvas.
OpenTemplate ==
    /\ pc = "ad_open"
    /\ base' = IF template_exists THEN "template" ELSE "plain"
    /\ pc' = "ad_slots"
    /\ UNCHANGED <<country_configs, wide, i, downloaded_files, fetched, started, finished,
                   doc, pos, product_count, products_for_feed, renders, emitted, ads, files,
                   meta_feed, tiktok_feed, google_feed, report, lt_file, error, fp_in,
                   fp_out, template_exists, ad_call, slot, pasted, requested, saved>>

\* One pass of the slot loop with the exception of the try block left uncaught.
FillSlot_FailureRaises ==
    /\ pc = "ad_slots"
    /\ slot <= SlotCount
    /\ IF slot > Len(ad_call.image_urls)
       THEN /\ pasted' = Append(pasted, Background)
            /\ pc' = pc
            /\ UNCHANGED requested
       ELSE /\ requested' = Append(requested, ad_call.image_urls[slot])
            /\ \E ok \in BOOLEAN :
                  /\ pasted' = IF ok THEN Append(pasted, ad_call.image_urls[slot]) ELSE pasted
                  /\ pc' = IF ok THEN pc ELSE "ad_crashed"
    /\ slot' = slot + 1
    /\ UNCHANGED <<country_configs, wide, i, downloaded_files, fetched, started, finished,
                   doc, pos, product_count, products_for_feed, renders, emitted, ads, files,
                   meta_feed, tiktok_feed, google_feed, report, lt_file, error, fp_in,
                   fp_out, template_exists, ad_call, base, saved>>

\* Lines 118-130, one pass of `for i, slot in enumerate(LAYOUT_CONFIG["slots"])`: a
\* slot without a url is passed over; else the url is requested, and the image is
\* pasted unless the request, the decoding or the pasting raises, which is caught.
FillSlot ==
    /\ pc = "ad_slots"
    /\ slot <= SlotCount
    /\ IF slot > Len(ad_call.image_urls)
       THEN /\ pasted' = Append(pasted, Background)
            /\ UNCHANGED requested
       ELSE /\ requested' = Append(requested, ad_call.image_urls[slot])
            /\ \E ok \in BOOLEAN :
                  pasted' = Append(pasted, IF ok THEN ad_call.image_urls[slot] ELSE Background)
    /\ slot' = slot + 1
    /\ pc' = pc
    /\ UNCHANGED <<country_configs, wide, i, downloaded_files, fetched, started, finished,
                   doc, pos, product_count, products_for_feed, renders, emitted, ads, files,
                   meta_feed, tiktok_feed, google_feed, report, lt_file, error, fp_in,
                   fp_out, template_exists, ad_call, base, saved>>

\* Lines 132-161: the price is drawn and the picture saved; drawing and saving are
\* taken to succeed.
DrawPriceAndSave ==
    /\ pc = "ad_slots"
    /\ slot > SlotCount
    /\ saved' = Append(saved, output_path(ad_call.product_id))
    /\ pc' = "ad_done"
    /\ UNCHANGED <<country_configs, wide, i, downloaded_files, fetched, started, finished,
                   doc, pos, product_count, products_for_feed, renders, emitted, ads, files,
                   meta_feed, tiktok_feed, google_feed, report, lt_file, error, fp_in,
                   fp_out, template_exists, ad_call, base, slot, pasted, requested>>

NextAd ==
    \/ OpenTemplate
    \/ FillSlot
    \/ DrawPriceAndSave

SpecAd == InitAd /\ [][NextAd]_vars

(***************************************************************************)
(* Vocabulary of the properties.                                           *)
(***************************************************************************)
Min(a, b) == IF a < b THEN a ELSE b

\* The markets whose download failed.
FailedDownloads == fetched \ downloaded_files

\* The feed files process_single_feed can write for a market.
OutputNames(code) ==
    {META_FEED_FILENAME(code), TIKTOK_FEED_FILENAME(code), GOOGLE_FEED_FILENAME(code)}

InSingleFeed == pc \in {"items", "google", "tiktok", "return"}

\* The for loop of process_single_feed has ended (normally).
ExtractionOver == (pc = "items" /\ LoopOver) \/ pc \in {"google", "tiktok", "return"}

\* An item the filters accept, stated on the item itself: an id element with text, an
\* allow-listed category, the lifestyle label, a price or a sale price, an image.
HasId(item) == \E k \in 1..Len(item) : item[k].tag = G("id") /\ ~item[k].nil

HasPrice(item) == \E k \in 1..Len(item) : item[k].tag \in {G("price"), G("sale_price")}

HasImage(item) ==
    \/ \E k \in 1..Len(item) : item[k].tag = G("image_link") /\ ~NoText(item[k])
    \/ \E k \in 1..Len(findall(item, G("additional_image_link"))) :
          k <= 2 /\ ~NoText(findall(item, G("additional_image_link"))[k])

Acceptable(item) ==
    HasId(item) /\ is_correct_category(item) /\ is_lifestyle(item) /\ HasPrice(item) /\ HasImage(item)

\* The acceptable items among the first n of the current document.
AcceptableOf(n) == SelectSeq(SubSeq(doc, 1, n), Acceptable)

(***************************************************************************)
(* C1.  Download failures.                                                 *)
(***************************************************************************)
\* C1: whenever the download of some markets has failed, the failing markets have no
\* output file and are never processed, no error has propagated out of the run
\* (process_all_feeds has not been left by an exception), and once the run is over
\* every market that did download has been processed.
C1_DownloadFailuresAreIsolated ==
    FailedDownloads # {} =>
        /\ \A c \in FailedDownloads :
              /\ c \notin started
              /\ files \cap (OutputNames(c) \cup {TEMP_FEED_FILENAME(c)}) = {}
        /\ error = ""
        /\ pc # "crashed"
        /\ pc = "done" => downloaded_files \subseteq started

(***************************************************************************)
(* C2.  The cap on accepted records.                                       *)
(***************************************************************************)
\* C2: during process_single_feed the records kept are exactly the acceptable items
\* among those read, in order, so a rejected item uses none of the cap; the count
\* never passes MAX_PRODUCTS_TO_GENERATE; when the cap is reached the item just read is
\* the one that reached it; and when the loop is over the number of records, and of
\* items of every feed written, is min(MAX_PRODUCTS_TO_GENERATE, acceptable items).
C2_CapCountsAcceptedRecords ==
    InSingleFeed =>
        /\ product_count = Len(products_for_feed)
        /\ product_count <= MAX_PRODUCTS_TO_GENERATE
        /\ Len(AcceptableOf(pos)) = product_count
        /\ \A k \in 1..product_count :
              products_for_feed[k].id = strip(find(AcceptableOf(pos)[k], G("id")).text)
        /\ product_count = MAX_PRODUCTS_TO_GENERATE => pos > 0 /\ Acceptable(doc[pos])
        /\ ExtractionOver =>
              product_count = Min(MAX_PRODUCTS_TO_GENERATE, Len(AcceptableOf(Len(doc))))
        /\ \A n \in {Len(meta_feed), Len(tiktok_feed), Len(google_feed)} :
              n # 0 => n = Min(MAX_PRODUCTS_TO_GENERATE, Len(AcceptableOf(Len(doc))))

\* The cap was reached after a rejected item had been read, and the feeds are being written.
C2_Witness ==
    /\ pc = "tiktok"
    /\ product_count = MAX_PRODUCTS_TO_GENERATE
    /\ pos > product_count
    /\ Len(meta_feed) = MAX_PRODUCTS_TO_GENERATE

(***************************************************************************)
(* C3.  What every accepted record is.                                     *)
(***************************************************************************)
\* The elements of seq at the indices S, in order.
Pick(seq, S) ==
    [k \in 1..Cardinality(S) |-> seq[CHOOSE n \in S : Cardinality({m \in S : m < n}) = k - 1]]

\* Primary first, then up to two additional, in document order.
ImagesInOrder(item, urls) ==
    LET primary == SelectSeq(item, LAMBDA e : e.tag = G("image_link") /\ ~NoText(e))
        additional == SelectSeq(item, LAMBDA e : e.tag = G("additional_image_link") /\ ~NoText(e))
    IN  \E S \in SUBSET (1..Len(additional)) :
           /\ Cardinality(S) <= 2
           /\ urls = (IF primary = <<>> THEN <<>> ELSE <<strip(primary[1].text)>>)
                        \o [k \in 1..Cardinality(S) |-> strip(Pick(additional, S)[k].text)]

CategoryAllowed(item) ==
    \E k \in 1..Len(item) :
       /\ item[k].tag[2] \in {"google_product_category", "category"}
       /\ ~item[k].nil
       /\ contains(StreetShoes, lower(item[k].text)) \/ contains(Boots, lower(item[k].text))

\* What C3 says of a record but for its label; the record's nodes are the item's.
RecordBasics(k) ==
    LET item == products_for_feed[k].nodes
        ad == renders[k]
    IN  /\ \E j \in 1..pos : cleaned_nodes(doc[j]) = item
        /\ HasId(item)
        /\ ad.id = products_for_feed[k].id
        /\ HasPrice(item)
        /\ Len(ad.image_urls) \in 1..3
        /\ ImagesInOrder(item, ad.image_urls)
        /\ CategoryAllowed(item)

\* C3 as stated: every accepted record's item has an id, a price or a sale price, one
\* to three image URLs (primary first, then up to two additional, in document order),
\* a category text containing an allow-listed substring whatever the case, and a
\* custom_label_0 equal to "lifestyle" whatever the case.
C3_Original ==
    /\ Len(renders) = Len(products_for_feed)
    /\ \A k \in 1..Len(products_for_feed) :
          /\ RecordBasics(k)
          /\ \E n \in 1..Len(products_for_feed[k].nodes) :
                /\ products_for_feed[k].nodes[n].tag = Bare("custom_label_0")
                /\ lower(products_for_feed[k].nodes[n].text) = Lifestyle

\* C3, amended: as C3, the custom_label_0 being equal to "lifestyle" whatever the case
\* once the white space around it is stripped.
C3_AcceptedRecords ==
    /\ Len(renders) = Len(products_for_feed)
    /\ \A k \in 1..Len(products_for_feed) :
          /\ RecordBasics(k)
          /\ \E n \in 1..Len(products_for_feed[k].nodes) :
                /\ products_for_feed[k].nodes[n].tag = Bare("custom_label_0")
                /\ lower(strip(products_for_feed[k].nodes[n].text)) = Lifestyle

\* A record was accepted whose label has white space around it and whose primary image
\* is followed by two additional ones.
C3_Witness ==
    \E k \in 1..Len(products_for_feed) :
       /\ Len(renders[k].image_urls) = 3
       /\ \E n \in 1..Len(products_for_feed[k].nodes) :
             /\ products_for_feed[k].nodes[n].tag = Bare("custom_label_0")
             /\ products_for_feed[k].nodes[n].text # strip(products_for_feed[k].nodes[n].text)

(***************************************************************************)
(* C4.  The display price.                                                 *)
(***************************************************************************)
\* C4: the display price of a record whose item has both a sale_price and a price is
\* the formatted sale price and its state is "sale"; the colour handed to the renderer
\* is the sale colour exactly when the state is "sale", the normal colour otherwise.
C4_DisplayPrice ==
    \A k \in 1..Len(products_for_feed) :
       LET item == products_for_feed[k].nodes
           sale == SelectSeq(item, LAMBDA e : e.tag = G("sale_price"))
           price == SelectSeq(item, LAMBDA e : e.tag = G("price"))
       IN  /\ k <= Len(renders)
           /\ products_for_feed[k].price_state \in {"sale", "normal"}
           /\ sale # <<>> /\ price # <<>> =>
                 /\ products_for_feed[k].price_state = "sale"
                 /\ renders[k].price_text = format_price(sale[1], config.currency).val
           /\ sale = <<>> =>
                 /\ products_for_feed[k].price_state = "normal"
                 /\ renders[k].price_text = format_price(price[1], config.currency).val
           /\ renders[k].price_color =
                 IF products_for_feed[k].price_state = "sale"
                 THEN SALE_PRICE_COLOR ELSE NORMAL_PRICE_COLOR

\* A record of an item with both prices was rendered with the sale price.
C4_Witness ==
    \E k \in 1..Len(products_for_feed) :
       /\ find(products_for_feed[k].nodes, G("price")) # NoneNode
       /\ find(products_for_feed[k].nodes, G("sale_price")) # NoneNode
       /\ renders[k].price_text = <<"1", "2">> \o EuroSign
       /\ renders[k].price_color = SALE_PRICE_COLOR

(***************************************************************************)
(* C5.  format_price.                                                      *)
(***************************************************************************)
\* What C5 says format_price returns for an element whose text is not blank.
C5_Expected(text) ==
    LET tokens == split(text)
    IN  IF IsFloatLiteral(tokens[1])
        THEN IF floatCents(tokens[1]) % 100 = 0
             THEN intText(floatCents(tokens[1]) \div 100) \o EuroSign
             ELSE fixed2(floatCents(tokens[1])) \o EuroSign
        ELSE replace(strip(text), <<" ">> \o EUR, EuroSign)

\* C5: format_price gives, for a numeric first token of integer value, the integer
\* followed by the currency symbol; of another value, the value with two decimals
\* followed by the symbol; for a text that is not numeric, the text with its currency
\* suffix replaced by the symbol; for an absent or empty element, the empty text.
C5_FormatPrice ==
    pc = "formatted" =>
        IF IsNone(fp_in) \/ fp_in.nil THEN fp_out = Returned(<<>>)
        ELSE split(fp_in.text) # <<>> => fp_out = Returned(C5_Expected(fp_in.text))

(***************************************************************************)
(* C6.  The contamination report.                                          *)
(***************************************************************************)
\* C6: once the report has run against the LT feed, the report file exists, its header
\* is ID, Title, Description, Link, and the rows were written without an error.
C6_ReportWritten ==
    lt_file # "unread" =>
        /\ report.exists
        /\ report.header = <<"ID", "Title", "Description", "Link">>
        /\ error = ""

C8_NoRecordsNoOutput ==
    [][/\ pc = "items" /\ LoopOver /\ products_for_feed = <<>> =>
             pc' = "return" /\ files' = files /\ ads' = ads /\ error' = error
       /\ pc = "process" /\ pc' = "return" =>
             /\ files' = files /\ ads' = ads /\ error' = error
             /\ products_for_feed' = <<>> /\ renders' = <<>>
       /\ pc = "return" /\ products_for_feed = <<>> =>
             /\ files \cap OutputNames(country_code) = {}
             /\ renders = <<>>
             /\ emitted = <<>>
             /\ error = ""
             /\ files' = files /\ ads' = ads /\ error' = error
             /\ finished' = finished \cup {country_code}
             /\ IF i < Len(country_configs) THEN pc' = "process" /\ i' = i + 1 ELSE pc' = "done"
      ]_vars

\* A feed with items, none of them accepted, has been gone through.
C8_Witness ==
    /\ pc = "return"
    /\ doc # <<>>
    /\ pos = Len(doc)
    /\ products_for_feed = <<>>
    /\ files \cap OutputNames(country_code) = {}

(***************************************************************************)
(* C9.  Rendering before emitting.                                         *)
(***************************************************************************)
\* The emitters of a market, in the order they are called.
ApplicableEmitters ==
    IF config.google_feed_required THEN <<"meta", "google", "tiktok">> ELSE <<"meta", "tiktok">>

\* C9: each record has been rendered once, in order; the emitters run only after the
\* extraction loop, so that nothing is rendered once one has started; they run in the
\* order meta, google (only if required), tiktok, each at most once, and each exactly
\* once when a market with records returns; each is given every record.
C9_RenderThenEmit ==
    /\ Len(renders) = Len(products_for_feed)
    /\ \A k \in 1..Len(renders) : renders[k].id = products_for_feed[k].id
    /\ Len(emitted) <= Len(ApplicableEmitters)
    /\ emitted = SubSeq(ApplicableEmitters, 1, Len(emitted))
    /\ emitted # <<>> =>
          /\ pc \in {"google", "tiktok", "return"}
          /\ products_for_feed # <<>>
          /\ Len(meta_feed) = Len(renders)
    /\ pc = "return" /\ products_for_feed # <<>> =>
          /\ emitted = ApplicableEmitters
          /\ Len(tiktok_feed) = Len(renders)
          /\ config.google_feed_required <=> Len(google_feed) = Len(renders)
          /\ ~config.google_feed_required <=> google_feed = <<>>

\* A market that needs no Google feed returns with two records, rendered and emitted.
C9_Witness ==
    /\ pc = "return"
    /\ Len(renders) = 2
    /\ emitted = <<"meta", "tiktok">>

(***************************************************************************)
(* C10.  The meta feed.                                                    *)
(***************************************************************************)
\* The feed item the k-th record was made from.
SourceOf(k) == AcceptableOf(pos)[k]

\* The new g:image_link of the k-th record.
NewImageNode(k) ==
    Node("g", "image_link", new_image_link(strip(find(SourceOf(k), G("id")).text)))

\* C10 as stated: the meta feed has one item per record, in order, and each has every
\* source node but g:image_link unchanged (same tag, same text, same order) and then
\* one g:image_link, whose value is the URL built from the id.
C10_Original ==
    meta_feed # <<>> =>
        /\ Len(meta_feed) = Len(products_for_feed)
        /\ \A k \in 1..Len(meta_feed) :
              meta_feed[k] =
                 SelectSeq(SourceOf(k), LAMBDA node : node.tag # G("image_link"))
                    \o <<NewImageNode(k)>>

\* A source node as the meta feed has it: the text of title, description and link is
\* the clean_text of the source's.
AsCleaned(node) ==
    IF node.tag[2] \in {"title", "description", "link"}
    THEN Node(node.tag[1], node.tag[2], clean_text(node))
    ELSE node

\* C10, amended: as C10, the nodes being unchanged but for the text of title,
\* description and link, which is the clean_text of the source's.
C10_MetaFeed ==
    meta_feed # <<>> =>
        /\ Len(meta_feed) = Len(products_for_feed)
        /\ \A k \in 1..Len(meta_feed) :
              LET kept == SelectSeq(SourceOf(k), LAMBDA node : node.tag # G("image_link"))
              IN  /\ meta_feed[k] = [n \in 1..Len(kept) |-> AsCleaned(kept[n])] \o <<NewImageNode(k)>>
                  /\ Cardinality({n \in 1..Len(meta_feed[k]) :
                                     meta_feed[k][n].tag = G("image_link")}) = 1

\* The meta feed holds an item whose source had a g:image_link of its own and a title
\* that cleaning changed.
C10_Witness ==
    /\ meta_feed # <<>>
    /\ \E k \in 1..Len(meta_feed) :
          /\ find(SourceOf(k), G("image_link")) # NoneNode
          /\ find(SourceOf(k), G("title")) # NoneNode
          /\ find(meta_feed[k], G("title")).text # find(SourceOf(k), G("title")).text

(***************************************************************************)
(* C11.  The TikTok feed.                                                  *)
(***************************************************************************)
\* The local names generate_tiktok_feed copies from the source item.
TikTokWhitelist ==
    {tiktok_required_tags[n] : n \in 1..Len(tiktok_required_tags)}
       \cup {tiktok_custom_labels[n] : n \in 1..Len(tiktok_custom_labels)}

\* C11: every item of the TikTok feed holds only whitelisted fields, each of them
\* present and not blank in the source item, then the creative URL as its one
\* g:image_link, then, when the source item has an additional_image_link with text,
\* the text of the first of them in document order, and no other additional link.
C11_TikTokItem ==
    tiktok_feed # <<>> =>
        /\ Len(tiktok_feed) = Len(products_for_feed)
        /\ \A k \in 1..Len(tiktok_feed) :
              LET t == tiktok_feed[k]
                  additional == SelectSeq(SourceOf(k),
                                   LAMBDA e : e.tag = G("additional_image_link") /\ ~NoText(e))
              IN  /\ \A n \in 1..Len(t) :
                         \/ t[n].tag \in {G("image_link"), G("additional_image_link")}
                         \/ /\ t[n].tag[2] \in TikTokWhitelist
                            /\ \E m \in 1..Len(SourceOf(k)) :
                                  /\ SourceOf(k)[m].tag[2] = t[n].tag[2]
                                  /\ ~NoText(SourceOf(k)[m])
                                  /\ strip(SourceOf(k)[m].text) # <<>>
                  /\ SelectSeq(t, LAMBDA e : e.tag = G("image_link")) = <<NewImageNode(k)>>
                  /\ SelectSeq(t, LAMBDA e : e.tag = G("additional_image_link")) =
                        IF additional = <<>> THEN <<>>
                        ELSE <<Node("g", "additional_image_link", additional[1].text)>>

(***************************************************************************)
(* C12.  The slots of a creative.                                          *)
(***************************************************************************)
\* C12: create_ballzy_ad never raises; the canvas is the template, or a plain one when
\* the template is missing; the slots are gone through in order and slot n shows
\* image_urls[n] or, if there is none or it failed, the background; every url that has
\* a slot is requested, whatever failed before it; the output file ad_<id>.jpg is
\* written exactly once, at the end.
C12_SlotsAndFailures ==
    /\ pc \in {"ad_open", "ad_slots", "ad_done"}
    /\ pc = "ad_open" => base = "none" /\ pasted = <<>>
    /\ pc # "ad_open" => base = IF template_exists THEN "template" ELSE "plain"
    /\ Len(pasted) = slot - 1
    /\ Len(pasted) <= SlotCount
    /\ \A n \in 1..Len(pasted) :
          \/ pasted[n] = Background
          \/ n <= Len(ad_call.image_urls) /\ pasted[n] = ad_call.image_urls[n]
    /\ \A n \in 1..Len(pasted) : n > Len(ad_call.image_urls) => pasted[n] = Background
    /\ requested = SubSeq(ad_call.image_urls, 1, Min(Len(pasted), Len(ad_call.image_urls)))
    /\ pc = "ad_done" =>
          /\ Len(pasted) = SlotCount
          /\ saved = <<output_path(ad_call.product_id)>>
    /\ pc # "ad_done" => saved = <<>>

\* Without a template, the first slot's image failed, the second's was pasted, and the
\* file was written.
C12_Witness ==
    /\ pc = "ad_done"
    /\ ~template_exists
    /\ Len(ad_call.image_urls) >= 2
    /\ pasted[1] = Background
    /\ pasted[2] = ad_call.image_urls[2]
    /\ saved = <<output_path(ad_call.product_id)>>

(***************************************************************************)
(* C13.  One creative per id.                                              *)
(***************************************************************************)
\* The g:image_link texts of a feed item.
ImageLinks(feed_item) ==
    {feed_item[n].text : n \in {m \in 1..Len(feed_item) : feed_item[m].tag = G("image_link")}}

\* The last record of the current market that bears the id of the k-th.
LastWithId(k) ==
    CHOOSE n \in 1..Len(renders) :
       /\ renders[n].id = renders[k].id
       /\ \A m \in (n + 1)..Len(renders) : renders[m].id # renders[k].id

\* In every state: there is one creative per id; the creative of a record's id is the
\* rendering of the last record with that id; every feed entry of a record refers to
\* the URL built from the id alone, so records of one id share it.
C13_OnePerId ==
    /\ \A a, b \in ads : a.id = b.id => a = b
    /\ \A k \in 1..Len(renders) : renders[LastWithId(k)] \in ads
    /\ \A k \in 1..Len(meta_feed) : ImageLinks(meta_feed[k]) = {new_image_link(renders[k].id)}
    /\ \A k \in 1..Len(tiktok_feed) : ImageLinks(tiktok_feed[k]) = {new_image_link(renders[k].id)}
    /\ \A k \in 1..Len(google_feed) : google_feed[k].Image_URL = new_image_link(renders[k].id)

\* C13: the creatives are keyed by id alone and shared by all markets: a creative
\* changes only when a record is rendered, which replaces the creative of its id
\* whichever market wrote it, so that ad_<id>.jpg holds the rendering of the last
\* accepted record with that id in processing order, and every feed entry for the id
\* refers to that one file.
C13_LastRecordWins ==
    /\ []C13_OnePerId
    /\ [][/\ ads' # ads => Len(renders') = Len(renders) + 1
          /\ Len(renders') = Len(renders) + 1 =>
                LET ad == renders'[Len(renders')]
                IN  ads' = {a \in ads : a.id # ad.id} \cup {ad}
         ]_vars

\* A later market has rendered two records of one id differently, after an earlier
\* market wrote its feeds: the creative is the second's, both feed entries refer to it.
C13_Witness ==
    /\ pc = "tiktok"
    /\ \E a \in 1..(i - 1) : META_FEED_FILENAME(country_configs[a]) \in files
    /\ Len(renders) = 2
    /\ renders[1].id = renders[2].id
    /\ renders[1] # renders[2]
    /\ renders[2] \in ads
    /\ renders[1] \notin ads
    /\ ImageLinks(meta_feed[1]) = ImageLinks(meta_feed[2])

====
